---- MODULE Spec2Model ----
(***************************************************************************)
(* A model of sider's collection views: sider.set.Set and                  *)
(* sider.sortedset.SortedSet over a Redis-like store, with the session's   *)
(* optimistic transaction (watch / buffer / commit / retry).               *)
(*                                                                         *)
(* Native Python values are records [s, kind, n]: kind "str" (a Python 2   *)
(* str, which is also what the store holds: a byte string) or kind "int".  *)
(* Byte strings in the store are TLA+ strings.                             *)
(***************************************************************************)
EXTENDS Integers, Sequences, FiniteSets, TLC

\* Every record constructor lists its fields in the order their names first
\* occur in this module: the order TLC keeps a record's fields in.

\* ------------------------------------------------------------------ bounds
\* Integers used as elements are 1..MaxInt.
MaxInt == 1
\* A plain set key (and the caller's native collection) starts with at most
\* MaxCard members.
MaxCard == 1

\* ------------------------------------------------------------------ values
StrV(s) == [s |-> s, kind |-> "str", n |-> 0]
IntV(n) == [s |-> "", kind |-> "int", n |-> n]
ErrV(e) == [s |-> e, kind |-> "err", n |-> 0]

Digits == <<"0", "1", "2", "3", "4", "5", "6", "7", "8", "9">>
\* str(n) of a small non-negative integer
Numeral(n) == Digits[n + 1]
IsNumeral(b) == \E i \in 1..Len(Digits) : Digits[i] = b
\* int(b) of a byte string: the integer, or ValueError
ParseInt(b) ==
  IF IsNumeral(b)
    THEN IntV((CHOOSE i \in 1..Len(Digits) : Digits[i] = b) - 1)
    ELSE ErrV("ValueError")

Ints == 1..MaxInt
Bytes == {"a"} \cup {Numeral(i) : i \in Ints}
Values == {StrV(b) : b \in Bytes} \cup {IntV(i) : i \in Ints}

\* ------------------------------------------------------------------ codecs
ByteString == "ByteString"
Integer == "Integer"
Codecs == {ByteString, Integer}

\* value_type.encode(value): the byte string, or TypeError
Encode(vt, v) ==
  IF vt = ByteString
    THEN IF v.kind = "str" THEN StrV(v.s) ELSE ErrV("TypeError")
    ELSE IF v.kind = "int" THEN StrV(Numeral(v.n)) ELSE ErrV("TypeError")

\* value_type.decode(bulk) of a byte string read from the store
Decode(vt, b) ==
  IF vt = ByteString THEN StrV(b) ELSE ParseInt(b)

\* value_type.decode(x) applied to a native value: ByteString returns its
\* argument, Integer calls int(x)
DecodeNative(vt, v) ==
  IF vt = ByteString THEN v
  ELSE IF v.kind = "int" THEN v
  ELSE IF v.kind = "str" THEN ParseInt(v.s)
  ELSE v

\* What the store client sends for a raw (unencoded) argument: str(value)
ClientStr(v) == IF v.kind = "int" THEN Numeral(v.n) ELSE v.s

\* ------------------------------------------------------------ plain sets
Sessions == {"s1", "s2"}
SKeys == {"k1", "k2"}
NoView == "-"

View(ses, key, vt) == [vt |-> vt, key |-> key, k |-> "view", session |-> ses]
\* the caller's native collection: a mutable set object, or a list holding
\* the same elements
Native(kind) == [vt |-> NoView, key |-> NoView, k |-> kind, session |-> NoView]

Views == {View(s, k, c) : s \in Sessions, k \in SKeys, c \in Codecs}
Operands == Views \cup {Native("set"), Native("list")}
\* the view an operation is called on
Selves == {View("s1", "k1", c) : c \in Codecs}

VARIABLES
  sstore,   \* plain-set key -> set of byte strings
  version,  \* session.server_version_info
  nat,      \* the members of the caller's native collection
  res,      \* the last Set operation: its arguments, outcome and pre-state
  zstore,   \* sorted-set key -> element -> [has, score]
  zstore0,  \* the sorted sets as they were initially
  tx,       \* session -> the state of its SortedSet.update call
  cres      \* the last SortedSet.__contains__ call

setvars == <<sstore, version, nat, res>>
zvars == <<zstore, zstore0, tx, cres>>
vars == <<sstore, version, nat, res, zstore, zstore0, tx, cres>>

\* outcome of a call: exc is "none" or the exception raised
Ok(set) == [set |-> set, exc |-> "none"]
Raise(e) == [set |-> {}, exc |-> e]

\* Set.__iter__ consumed whole: set(view)
Materialize(view, st) ==
  LET ds == {Decode(view.vt, m) : m \in st[view.key]}
  IN IF \E d \in ds : d.kind = "err" THEN Raise("ValueError") ELSE Ok(ds)

\* iterating any operand to the end
IterAll(x, st, nt) ==
  IF x.k = "view" THEN Materialize(x, st) ELSE Ok(nt)

\* decoding a store reply with a codec
DecodeAll(vt, ms) ==
  LET ds == {Decode(vt, m) : m \in ms}
  IN IF \E d \in ds : d.kind = "err" THEN Raise("ValueError") ELSE Ok(ds)

SameSession(self, x) == x.k = "view" /\ x.session = self.session
Compatible(self, x) == SameSession(self, x) /\ x.vt = self.vt

\* Set.__contains__
Contains(self, v, st) ==
  LET data == Encode(self.vt, v)
  IN IF data.kind = "err" THEN FALSE ELSE data.s \in st[self.key]
\* outcome of a call that answers a boolean
Answer(b) == [exc |-> "none", flag |-> b]
Fail(e) == [exc |-> e, flag |-> FALSE]

\* ---- the store's set commands (SDIFF, SUNION, SINTER) on byte strings
Sdiff(st, key, others) == {m \in st[key] : \A k \in others : m \notin st[k]}
Sunion(st, keys) == UNION {st[k] : k \in keys}
Sinter(st, keys) == {m \in Bytes : \A k \in keys : m \in st[k]}

\* One element of the generic disjointness loop of collections.Set:
\* the operand's element is produced (a view of another session decodes it),
\* decoded once more with self's codec, and looked up with "in self".
ProbeNative(self, v, st) ==
  LET d == DecodeNative(self.vt, v)
  IN IF d.kind = "err" THEN "err"
     ELSE IF Contains(self, d, st) THEN "hit" ELSE "miss"

Probe(self, x, el, st) ==
  IF x.k = "view"
    THEN LET d == Decode(x.vt, el)
         IN IF d.kind = "err" THEN "err" ELSE ProbeNative(self, d, st)
    ELSE ProbeNative(self, el, st)

\* what the operand's iteration draws from
Source(x, st, nt) == IF x.k = "view" THEN st[x.key] ELSE nt

\* Set.isdisjoint: the set of outcomes the call can have (the iteration
\* order of a set decides whether a common element or an undecodable one is
\* met first).
Isdisjoint(self, x, st, nt) ==
  IF SameSession(self, x)
    THEN IF self.vt # x.vt
           THEN {Answer(TRUE)}
           ELSE {Answer(Sinter(st, {self.key, x.key}) = {})}
    ELSE LET ps == {Probe(self, x, el, st) : el \in Source(x, st, nt)}
         IN  (IF "hit" \in ps THEN {Answer(FALSE)} ELSE {})
               \cup (IF "err" \in ps THEN {Fail("ValueError")} ELSE {})
               \cup (IF ps \subseteq {"miss"} THEN {Answer(TRUE)} ELSE {})

\* Set.difference with the keys of SDIFF in the wrong order
DifferenceSwapped(self, x, st, nt) ==
  IF SameSession(self, x)
    THEN IF self.vt # x.vt
           THEN Materialize(self, st)
           ELSE DecodeAll(self.vt, Sdiff(st, x.key, {self.key}))
    ELSE LET a == Materialize(self, st)
             b == IterAll(x, st, nt)
         IN IF a.exc # "none" THEN a
            ELSE IF b.exc # "none" THEN b
            ELSE Ok(a.set \ b.set)

\* Set.difference
Difference(self, x, st, nt) ==
  IF SameSession(self, x)
    THEN IF self.vt # x.vt
           THEN Materialize(self, st)
           ELSE DecodeAll(self.vt, Sdiff(st, self.key, {x.key}))
    ELSE LET a == Materialize(self, st)
             b == IterAll(x, st, nt)
         IN IF a.exc # "none" THEN a
            ELSE IF b.exc # "none" THEN b
            ELSE Ok(a.set \ b.set)

\* Set.union: one SUNION per codec among the same-session views (self's
\* group always exists), then the other operands folded in locally
Union(self, xs, st, nt) ==
  LET online == {i \in 1..Len(xs) : SameSession(self, xs[i])}
      offline == (1..Len(xs)) \ online
      types == {self.vt} \cup {xs[i].vt : i \in online}
      GroupKeys(vt) == (IF vt = self.vt THEN {self.key} ELSE {})
                         \cup {xs[i].key : i \in {j \in online : xs[j].vt = vt}}
      groups == {DecodeAll(vt, Sunion(st, GroupKeys(vt))) : vt \in types}
      locals == {IterAll(xs[i], st, nt) : i \in offline}
      parts == groups \cup locals
  IN IF \E p \in parts : p.exc # "none"
       THEN Raise("ValueError")
       ELSE Ok(UNION {p.set : p \in parts})

\* Set.intersection: the returned outcome and the native collection after
\* the call (base.intersection_update acts on the first non-view operand
\* itself when that operand is a set)
Intersection(self, xs, st, nt) ==
  LET online == {i \in 1..Len(xs) : SameSession(self, xs[i])}
      offline == (1..Len(xs)) \ online
      keys == {xs[i].key : i \in online}
      on == IF keys # {}
              THEN DecodeAll(self.vt, Sinter(st, {self.key} \cup keys))
              ELSE Materialize(self, st)
      first == CHOOSE i \in offline : \A j \in offline : i <= j
      parts == {on} \cup {IterAll(xs[i], st, nt) : i \in offline}
      inter == {v \in on.set : \A p \in parts : v \in p.set}
  IN IF \E i \in online : xs[i].vt # self.vt
       THEN [nat |-> nt, set |-> {}, exc |-> "none"]
     ELSE IF \E p \in parts : p.exc # "none"
       THEN [nat |-> nt, set |-> {}, exc |-> "ValueError"]
     ELSE IF offline # {} /\ xs[first].k = "set"
       THEN [nat |-> inter, set |-> inter, exc |-> "none"]
     ELSE [nat |-> nt, set |-> inter, exc |-> "none"]

\* Set.__eq__ without the isinstance(operand, collections.Set) test
EqAnyIterable(self, x, st, nt) ==
  LET a == Materialize(self, st)
      b == IterAll(x, st, nt)
  IN IF a.exc # "none" \/ b.exc # "none"
       THEN Fail("ValueError")
       ELSE Answer(a.set = b.set)

\* Set.__eq__
Eq(self, x, st, nt) ==
  IF x.k \in {"view", "set"}
    THEN LET a == Materialize(self, st)
             b == IterAll(x, st, nt)
         IN IF a.exc # "none" \/ b.exc # "none"
              THEN Fail("ValueError")
              ELSE Answer(a.set = b.set)
    ELSE Answer(FALSE)
\* ---- Set._raw_update
\* the first server version whose SADD takes several members
MinMultiAdd == <<2, 4, 0>>
ServerVersions == {<<2, 2, 12>>, <<2, 4, 0>>}
\* Python's tuple comparison a < b on version triples
TupleLess(a, b) ==
  \/ a[1] < b[1]
  \/ a[1] = b[1] /\ a[2] < b[2]
  \/ a[1] = b[1] /\ a[2] = b[2] /\ a[3] < b[3]

\* the outcome of _raw_update followed by the pipe's execution: the exception
\* raised (nothing is then executed), the form and number of the commands
\* issued and the store afterwards
RawOut(e, form, n, st) == [n |-> n, exc |-> e, form |-> form, store |-> st]

RawUpdate(self, x, ver, st, nt) ==
  LET key == self.key
      members == IterAll(x, st, nt)
      encoded == {Encode(self.vt, v) : v \in members.set}
  IN IF Compatible(self, x)
       THEN RawOut("none", "sunionstore", 1,
                   [st EXCEPT ![key] = st[x.key] \cup st[key]])
     ELSE IF members.exc # "none"
       THEN RawOut(members.exc, "none", 0, st)
     ELSE IF TupleLess(ver, MinMultiAdd)
       THEN IF \E d \in encoded : d.kind = "err"
              THEN RawOut("TypeError", "none", 0, st)
              ELSE RawOut("none", "sadd1", Cardinality(members.set),
                          [st EXCEPT ![key] = st[key] \cup {d.s : d \in encoded}])
     ELSE IF members.set = {}
       THEN RawOut("ResponseError", "saddN", 1, st)
     ELSE RawOut("none", "saddN", 1,
                 [st EXCEPT ![key] = st[key] \cup {ClientStr(v) : v \in members.set}])

\* ------------------------------------------------------- sorted sets
\* Most items one update call names.
MaxItems == 2
\* Sorted-set elements start with a score in 1..MaxScore.
MaxScore == 1
\* Integral scores passed to update are -1..MaxAmount.
MaxAmount == 1

ZKeys == {"z1", "z2"}
ZView(ses, key, vt) == [vt |-> vt, key |-> key, session |-> ses]
NoZView == ZView(NoView, NoView, NoView)

Absent == [has |-> FALSE, score |-> 0]
Scored(n) == [has |-> TRUE, score |-> n]

\* a score given by the caller: an int, a float (n stands for n.0) or
\* something that is no number
Amt(kind, n) == [kind |-> kind, n |-> n]
Amounts ==
  {Amt("int", n) : n \in -1..MaxAmount} \cup {Amt("float", 1), Amt("str", 0)}
\* isinstance(score, numbers.Real), isinstance(score, numbers.Integral)
IsReal(a) == a.kind \in {"int", "float"}
IsIntegral(a) == a.kind = "int"

\* One iteration of update's loops: an element of a plain iterable ("el"),
\* an entry of a mapping ("pair"), a keyword ("kw"), a SortedSet operand
\* ("zset"), or an operand that is not iterable ("bad").
Item(t, v, a, view) == [v |-> v, view |-> view, t |-> t, amt |-> a]
NoAmt == Amt("int", 1)
NoVal == StrV("")

RECURSIVE SumSeq(_)
SumSeq(s) == IF s = << >> THEN 0 ELSE Head(s) + SumSeq(Tail(s))

\* ---- the store's sorted-set commands
\* ZINCRBY: an absent element counts as score 0
Zincrby(zst, key, el, amount) ==
  [zst EXCEPT ![key][el] = Scored(@.score + amount)]

\* ZUNIONSTORE dest numkeys key...: the sum of the scores over the listed
\* keys (a key listed twice counts twice)
Zunionstore(zst, dest, keys) ==
  LET Has(el) == \E i \in 1..Len(keys) : zst[keys[i]][el].has
      Sum(el) == SumSeq([i \in 1..Len(keys) |-> zst[keys[i]][el].score])
  IN [zst EXCEPT ![dest] =
        [el \in Bytes |-> IF Has(el) THEN Scored(Sum(el)) ELSE Absent]]

\* the order of byte strings the store breaks ties with
ByteRank(b) ==
  IF IsNumeral(b) THEN CHOOSE i \in 1..Len(Digits) : Digits[i] = b
  ELSE Len(Digits) + 1
Before(zst, key, x, y) ==
  \/ zst[key][x].score < zst[key][y].score
  \/ zst[key][x].score = zst[key][y].score /\ ByteRank(x) < ByteRank(y)
\* ZRANGE key 0 -1
Zrange(zst, key) ==
  LET els == {el \in Bytes : zst[key][el].has}
      Pos(el) == 1 + Cardinality({x \in els : Before(zst, key, x, el)})
  IN [i \in 1..Cardinality(els) |-> CHOOSE el \in els : Pos(el) = i]

\* SortedSet.__iter__
ZIterate(self, zst) ==
  LET r == Zrange(zst, self.key)
  IN [i \in 1..Len(r) |-> Decode(self.vt, r[i])]

\* SortedSet.__contains__: bool(zscore(key, element))
ZContains(self, v, zst) ==
  LET element == Encode(self.vt, v)
  IN IF element.kind = "err" THEN FALSE
     ELSE LET z == zst[self.key][element.s]
          IN z.has /\ z.score # 0

\* ---- commands a block issues
Ev(e, key, el, amount, keys) ==
  [e |-> e, key |-> key, keys |-> keys, el |-> el, amt |-> amount]
EvMark(keys) == Ev("mark", NoView, "", 0, keys)
EvZincrby(key, el, amount) == Ev("zincrby", key, el, amount, << >>)
EvZunionstore(dest, keys) == Ev("zunionstore", dest, "", 0, keys)
EvRaise == Ev("raise", NoView, "", 0, << >>)

\* what one item does in update's block: "skip" (a SortedSet operand is put
\* aside), "raise" (TypeError) or "incr"
ItemKind(self, it) ==
  IF it.t = "zset" THEN "skip"
  ELSE IF it.t = "bad" THEN "raise"
  ELSE IF Encode(self.vt, it.v).kind = "err" THEN "raise"
  ELSE IF it.t = "pair" /\ ~IsReal(it.amt) THEN "raise"
  ELSE IF it.t = "kw" /\ ~IsIntegral(it.amt) THEN "raise"
  ELSE "incr"
ItemAmount(it) == IF it.t = "el" THEN 1 ELSE it.amt.n
ItemEvent(self, it) ==
  EvZincrby(self.key, Encode(self.vt, it.v).s, ItemAmount(it))

RECURSIVE Incrs(_, _)
\* the ZINCRBY commands of the items, in order
Incrs(self, items) ==
  IF items = << >> THEN << >>
  ELSE (IF ItemKind(self, Head(items)) = "incr"
          THEN <<ItemEvent(self, Head(items))>> ELSE << >>)
       \o Incrs(self, Tail(items))

\* the items before the first one that raises, and whether one raises
Raises(self, req) == \E i \in 1..Len(req) : ItemKind(self, req[i]) = "raise"
Prefix(self, req) ==
  IF Raises(self, req)
    THEN SubSeq(req, 1, (CHOOSE i \in 1..Len(req) :
                           /\ ItemKind(self, req[i]) = "raise"
                           /\ \A j \in 1..(i - 1) : ItemKind(self, req[j]) # "raise") - 1)
    ELSE req
IsZset(it) == it.t = "zset"
OnlineKeys(req) ==
  LET zs == SelectSeq(req, IsZset) IN [i \in 1..Len(zs) |-> zs[i].view.key]

\* update's block skipping the increments when it is run again
BlockEventsOnce(self, req, trial) ==
  IF trial > 0 THEN <<EvMark({self.key})>>
  ELSE <<EvMark({self.key})>>
       \o Incrs(self, Prefix(self, req))
       \o (IF Raises(self, req) THEN <<EvRaise>>
           ELSE IF OnlineKeys(req) # << >>
             THEN <<EvZunionstore(self.key, <<self.key>> \o OnlineKeys(req))>>
           ELSE << >>)

\* update's block giving every element the amount 1
BlockEventsUnit(self, req, trial) ==
  <<EvMark({self.key})>>
  \o [i \in 1..Len(Incrs(self, Prefix(self, req))) |->
        [Incrs(self, Prefix(self, req))[i] EXCEPT !.amt = 1]]
  \o (IF Raises(self, req) THEN <<EvRaise>>
      ELSE IF OnlineKeys(req) # << >>
        THEN <<EvZunionstore(self.key, <<self.key>> \o OnlineKeys(req))>>
      ELSE << >>)

\* update's block without session.mark_manipulative([key])
BlockEventsNoMark(self, req, trial) ==
  Incrs(self, Prefix(self, req))
  \o (IF Raises(self, req) THEN <<EvRaise>>
      ELSE IF OnlineKeys(req) # << >>
        THEN <<EvZunionstore(self.key, <<self.key>> \o OnlineKeys(req))>>
      ELSE << >>)

\* update's block leaving its own key out of ZUNIONSTORE
BlockEventsNoSelf(self, req, trial) ==
  <<EvMark({self.key})>>
  \o Incrs(self, Prefix(self, req))
  \o (IF Raises(self, req) THEN <<EvRaise>>
      ELSE IF OnlineKeys(req) # << >>
        THEN <<EvZunionstore(self.key, OnlineKeys(req))>>
      ELSE << >>)

\* The block of SortedSet.update, as the commands it issues in order: it
\* marks its key, issues one ZINCRBY per element, entry and keyword until one
\* of them raises, and ends with ZUNIONSTORE when SortedSet operands were
\* put aside.
BlockEvents(self, req, trial) ==
  <<EvMark({self.key})>>
  \o Incrs(self, Prefix(self, req))
  \o (IF Raises(self, req) THEN <<EvRaise>>
      ELSE IF OnlineKeys(req) # << >>
        THEN <<EvZunionstore(self.key, <<self.key>> \o OnlineKeys(req))>>
      ELSE << >>)

\* ---- the session's transaction
ApplyCmd(zst, c) ==
  IF c.e = "zincrby" THEN Zincrby(zst, c.key, c.el, c.amt)
  ELSE Zunionstore(zst, c.key, c.keys)
RECURSIVE ApplyAll(_, _)
ApplyAll(zst, cmds) ==
  IF cmds = << >> THEN zst ELSE ApplyAll(ApplyCmd(zst, Head(cmds)), Tail(cmds))

NoSnap == [k \in ZKeys |-> [el \in Bytes |-> Absent]]
TxIdle ==
  [exc |-> "none", self |-> NoZView, req |-> << >>, trial |-> 0,
   pc |-> "idle", ev |-> << >>, ip |-> 1, manip |-> FALSE, buf |-> << >>,
   watched |-> {}, dirty |-> {}, touched |-> {},
   pre |-> NoSnap, atCommit |-> NoSnap, post |-> NoSnap]
NoCres ==
  [v |-> NoVal, exc |-> "none", self |-> NoZView, flag |-> FALSE, op |-> "none"]

\* no sorted-set activity
ZQuiet ==
  /\ zstore = NoSnap
  /\ zstore0 = NoSnap
  /\ tx = [s \in Sessions |-> TxIdle]
  /\ cres = NoCres

\* ------------------------------------------------- Set operations as steps
NoRes ==
  [n |-> 0, set |-> {}, exc |-> "none", self |-> View("s1", "k1", ByteString),
   flag |-> FALSE, form |-> "none", op |-> "none", args |-> << >>,
   store0 |-> [k \in SKeys |-> {}], nat0 |-> {}]

\* one or two operands for the variadic operations
OperandSeqs == {<<x>> : x \in Operands} \cup {<<x, y>> : x \in Operands, y \in Operands}

Small(S) == {T \in SUBSET S : Cardinality(T) <= MaxCard}

SetInit ==
  /\ sstore \in [SKeys -> Small(Bytes)]
  /\ version \in ServerVersions
  /\ nat \in Small(Values)
  /\ res = NoRes
  /\ ZQuiet

\* A run populates keys with _raw_update and then observes one operation.
Observing == res.op \in {"none", "raw_update"}

Called(op, self, args) ==
  [NoRes EXCEPT !.op = op, !.self = self, !.args = args,
                !.store0 = sstore, !.nat0 = nat]

DoIsdisjoint ==
  /\ Observing
  /\ \E self \in Selves, x \in Operands :
    \E o \in Isdisjoint(self, x, sstore, nat) :
      /\ res' = [Called("isdisjoint", self, <<x>>) EXCEPT !.exc = o.exc, !.flag = o.flag]
      /\ UNCHANGED <<sstore, version, nat>> /\ UNCHANGED zvars

DoDifference ==
  /\ Observing
  /\ \E self \in Selves, x \in Operands :
    LET o == Difference(self, x, sstore, nat)
    IN /\ res' = [Called("difference", self, <<x>>) EXCEPT !.exc = o.exc, !.set = o.set]
       /\ UNCHANGED <<sstore, version, nat>> /\ UNCHANGED zvars

DoUnion ==
  /\ Observing
  /\ \E self \in Selves, xs \in OperandSeqs :
    LET o == Union(self, xs, sstore, nat)
    IN /\ res' = [Called("union", self, xs) EXCEPT !.exc = o.exc, !.set = o.set]
       /\ UNCHANGED <<sstore, version, nat>> /\ UNCHANGED zvars

DoIntersection ==
  /\ Observing
  /\ \E self \in Selves, xs \in OperandSeqs :
    LET o == Intersection(self, xs, sstore, nat)
    IN /\ res' = [Called("intersection", self, xs) EXCEPT !.exc = o.exc, !.set = o.set]
       /\ nat' = o.nat
       /\ UNCHANGED <<sstore, version>> /\ UNCHANGED zvars

DoEq ==
  /\ Observing
  /\ \E self \in Selves, x \in Operands :
    LET o == Eq(self, x, sstore, nat)
    IN /\ res' = [Called("eq", self, <<x>>) EXCEPT !.exc = o.exc, !.flag = o.flag]
       /\ UNCHANGED <<sstore, version, nat>> /\ UNCHANGED zvars

DoRawUpdate ==
  /\ Observing
  /\ \E self \in Selves, x \in Operands :
    LET o == RawUpdate(self, x, version, sstore, nat)
    IN /\ res' = [Called("raw_update", self, <<x>>) EXCEPT
                    !.exc = o.exc, !.form = o.form, !.n = o.n]
       /\ sstore' = o.store
       /\ UNCHANGED <<version, nat>> /\ UNCHANGED zvars

SetNext ==
  \/ DoIsdisjoint
  \/ DoDifference
  \/ DoUnion
  \/ DoIntersection
  \/ DoEq
  \/ DoRawUpdate

SetSpec == SetInit /\ [][SetNext]_vars
\* ------------------------------------------- SortedSet.update as steps
\* no plain-set activity
SQuiet ==
  /\ sstore = [k \in SKeys |-> {}]
  /\ version = MinMultiAdd
  /\ nat = {}
  /\ res = NoRes

\* the keys a sequence of commands writes
WrittenKeys(cmds) == {cmds[i].key : i \in 1..Len(cmds)}

\* Session s wrote keys: every other session in a transaction attempt sees
\* its watched keys among them as changed.
Touch(txs, s, keys) ==
  [t \in Sessions |->
     IF t # s /\ txs[t].pc \in {"block", "commit"}
       THEN [txs[t] EXCEPT !.touched = @ \cup keys,
                           !.dirty = @ \cup (keys \cap txs[t].watched)]
       ELSE txs[t]]

\* sortedset.update(*sets, **keywords) is called
Call(s, self, r) ==
  /\ tx[s].pc = "idle"
  /\ tx' = [tx EXCEPT ![s] = [TxIdle EXCEPT !.pc = "watch", !.self = self,
                                           !.req = r, !.pre = zstore]]
  /\ UNCHANGED <<zstore, zstore0, cres>> /\ UNCHANGED setvars

\* session.transaction(block, [key]) starts an attempt: it watches the key and
\* runs the block
Watch(s) ==
  /\ tx[s].pc = "watch"
  /\ LET ev == BlockEvents(tx[s].self, tx[s].req, tx[s].trial)
     IN tx' = [tx EXCEPT ![s] =
                 [@ EXCEPT !.pc = IF ev = << >> THEN "commit" ELSE "block",
                           !.ev = ev, !.ip = 1, !.manip = FALSE, !.buf = << >>,
                           !.watched = {tx[s].self.key}, !.dirty = {},
                           !.touched = {}]]
  /\ UNCHANGED <<zstore, zstore0, cres>> /\ UNCHANGED setvars

AtEvent(s, kinds) ==
  /\ tx[s].pc = "block"
  /\ tx[s].ip <= Len(tx[s].ev)
  /\ tx[s].ev[tx[s].ip].e \in kinds

Advance(r) ==
  [r EXCEPT !.ip = @ + 1, !.pc = IF r.ip + 1 > Len(r.ev) THEN "commit" ELSE "block"]

\* session.mark_manipulative(keys): from here on commands are buffered
StepMark(s) ==
  /\ AtEvent(s, {"mark"})
  /\ tx' = [tx EXCEPT ![s] =
              Advance([@ EXCEPT !.manip = TRUE,
                                !.watched = @ \cup tx[s].ev[tx[s].ip].keys])]
  /\ UNCHANGED <<zstore, zstore0, cres>> /\ UNCHANGED setvars

\* session.client.zincrby / zunionstore inside the block: buffered once the
\* session is marked manipulative, sent at once before that
StepCommand(s) ==
  /\ AtEvent(s, {"zincrby", "zunionstore"})
  /\ LET c == tx[s].ev[tx[s].ip]
     IN IF tx[s].manip
          THEN /\ tx' = [tx EXCEPT ![s] = Advance([@ EXCEPT !.buf = Append(@, c)])]
               /\ zstore' = zstore
          ELSE /\ tx' = Touch([tx EXCEPT ![s] = Advance(@)], s, {c.key})
               /\ zstore' = ApplyCmd(zstore, c)
  /\ UNCHANGED <<zstore0, cres>> /\ UNCHANGED setvars

\* the block raises TypeError: the attempt is dropped with what it buffered
\* and the error reaches the caller
StepRaise(s) ==
  /\ AtEvent(s, {"raise"})
  /\ tx' = [tx EXCEPT ![s] = [@ EXCEPT !.pc = "raised", !.exc = "TypeError",
                                      !.buf = << >>, !.watched = {},
                                      !.dirty = {}]]
  /\ UNCHANGED <<zstore, zstore0, cres>> /\ UNCHANGED setvars

\* the commit finds every watched key unchanged: the buffer is applied
CommitOk(s) ==
  /\ tx[s].pc = "commit"
  /\ tx[s].dirty = {}
  /\ zstore' = ApplyAll(zstore, tx[s].buf)
  /\ tx' = Touch([tx EXCEPT ![s] =
                    [@ EXCEPT !.pc = "done", !.atCommit = zstore,
                              !.post = zstore', !.buf = << >>,
                              !.watched = {}]],
                 s, WrittenKeys(tx[s].buf))
  /\ UNCHANGED <<zstore0, cres>> /\ UNCHANGED setvars

\* the commit finds a watched key changed: the buffer is dropped and the
\* block is run again
CommitRejected(s) ==
  /\ tx[s].pc = "commit"
  /\ tx[s].dirty # {}
  /\ tx' = [tx EXCEPT ![s] = [@ EXCEPT !.pc = "watch", !.trial = @ + 1,
                                      !.buf = << >>, !.watched = {}]]
  /\ UNCHANGED <<zstore, zstore0, cres>> /\ UNCHANGED setvars

\* value in sortedset, asked once the update has returned
DoContains(s) ==
  /\ tx[s].pc = "done"
  /\ \E v \in Values :
       cres' = [v |-> v, exc |-> "none", self |-> tx[s].self,
                flag |-> ZContains(tx[s].self, v, zstore), op |-> "contains"]
  /\ UNCHANGED <<zstore, zstore0, tx>> /\ UNCHANGED setvars

\* ---- what update is called with
StrValues == {v \in Values : v.kind = "str"}
ElItems == {Item("el", v, NoAmt, NoZView) : v \in Values}
PairItems == {Item("pair", v, a, NoZView) : v \in Values, a \in Amounts}
KwItems == {Item("kw", v, a, NoZView) : v \in StrValues, a \in Amounts}
BadItems == {Item("bad", NoVal, NoAmt, NoZView)}
ZsetItems(views) == {Item("zset", NoVal, NoAmt, zv) : zv \in views}

\* keywords come after the positional operands and have distinct names
WellFormed(r) ==
  \A i \in 1..Len(r), j \in 1..Len(r) :
    i < j => /\ r[i].t = "kw" => r[j].t = "kw"
             /\ (r[i].t = "kw" /\ r[j].t = "kw") => r[i].v # r[j].v
SeqsUpTo(S, n) == UNION {[1..m -> S] : m \in 0..n}
RequestsOver(S) == {r \in SeqsUpTo(S, MaxItems) : WellFormed(r)}

ZInitial == [ZKeys -> [Bytes -> {Absent} \cup {Scored(n) : n \in 1..MaxScore}]]

\* ---- one session updating
UpdateItems ==
  ElItems \cup PairItems \cup KwItems \cup BadItems
    \cup ZsetItems({ZView("s1", "z2", ByteString), ZView("s2", "z2", ByteString)})
UpdateSelves == {ZView("s1", "z1", c) : c \in Codecs}

UpdateInit ==
  /\ zstore \in ZInitial
  /\ zstore0 = zstore
  /\ tx = [s \in Sessions |-> TxIdle]
  /\ cres = NoCres
  /\ SQuiet

UpdateNext ==
  \/ \E self \in UpdateSelves, r \in RequestsOver(UpdateItems) : Call("s1", self, r)
  \/ Watch("s1")
  \/ StepMark("s1")
  \/ StepCommand("s1")
  \/ StepRaise("s1")
  \/ CommitOk("s1")
  \/ DoContains("s1")

UpdateSpec == UpdateInit /\ [][UpdateNext]_vars

\* ---- two sessions updating concurrently
\* s1 updates z1; s2 updates z1 too, or z2, which s1 may name as an operand
ConcKeys(s) == IF s = "s1" THEN {"z1"} ELSE ZKeys
ConcItems(s, key) ==
  {Item("el", v, NoAmt, NoZView) : v \in StrValues}
    \cup BadItems
    \cup ZsetItems({ZView(s, k, ByteString) : k \in ZKeys \ {key}})

\* every element of a key starts alike
ConcInit ==
  /\ zstore \in {st \in ZInitial :
                   \A k \in ZKeys : \A x \in Bytes, y \in Bytes : st[k][x] = st[k][y]}
  /\ zstore0 = zstore
  /\ tx = [s \in Sessions |-> TxIdle]
  /\ cres = NoCres
  /\ SQuiet

ConcNext ==
  \E s \in Sessions :
    \/ \E key \in ConcKeys(s) : \E r \in RequestsOver(ConcItems(s, key)) :
         Call(s, ZView(s, key, ByteString), r)
    \/ Watch(s)
    \/ StepMark(s)
    \/ StepCommand(s)
    \/ StepRaise(s)
    \/ CommitOk(s)
    \/ CommitRejected(s)

ConcSpec == ConcInit /\ [][ConcNext]_vars

\* ------------------------------------------------------- claims on Set
\* the members of both sides of the last call, materialized locally in the
\* state the call started from
SelfSet == Materialize(res.self, res.store0)
ArgSet == IterAll(res.args[1], res.store0, res.nat0)
BothMaterialize == SelfSet.exc = "none" /\ ArgSet.exc = "none"
Delegated ==
  /\ res.op \in {"difference", "union", "intersection"}
  /\ Len(res.args) = 1
  /\ Compatible(res.self, res.args[1])

\* C2: for same-session, same-codec views A and B, difference, union and
\* intersection through SDIFF / SUNION / SINTER return the set that
\* materializing A and B and applying the generic set operation gives.
C2_RemoteEqualsLocal ==
  (Delegated /\ BothMaterialize) =>
    /\ res.exc = "none"
    /\ res.op = "difference" => res.set = SelfSet.set \ ArgSet.set
    /\ res.op = "union" => res.set = SelfSet.set \cup ArgSet.set
    /\ res.op = "intersection" => res.set = SelfSet.set \cap ArgSet.set

C2_Witness ==
  /\ Delegated /\ BothMaterialize
  /\ res.op = "difference"
  /\ res.args[1].key # res.self.key
  /\ res.set # {} /\ res.set # SelfSet.set

\* C3: _raw_update with an operand that is not a same-session same-codec
\* view issues one multi-value SADD on a server >= (2, 4, 0) and one SADD per
\* member otherwise, and both forms leave the same members under the key,
\* each in its encoded form.
C3_BothFormsAgree ==
  (res.op = "raw_update" /\ ~Compatible(res.self, res.args[1]) /\ ArgSet.exc = "none") =>
    LET key == res.self.key
        other == CHOOSE v \in ServerVersions :
                   TupleLess(v, MinMultiAdd) # TupleLess(version, MinMultiAdd)
        alt == RawUpdate(res.self, res.args[1], other, res.store0, res.nat0)
        enc == {Encode(res.self.vt, v) : v \in ArgSet.set}
    IN /\ res.exc = "none" =>
            IF TupleLess(version, MinMultiAdd)
              THEN res.form = "sadd1" /\ res.n = Cardinality(ArgSet.set)
              ELSE res.form = "saddN" /\ res.n = 1
       /\ res.exc = alt.exc
       /\ sstore = alt.store
       /\ res.exc = "none" => sstore[key] = res.store0[key] \cup {d.s : d \in enc}

\* C4: A.isdisjoint(X) is true exactly when the materialized members of A
\* and the members X yields have no common element, for every kind of X.
C4_IsdisjointExact ==
  (res.op = "isdisjoint" /\ BothMaterialize) =>
    /\ res.exc = "none"
    /\ res.flag = (SelfSet.set \cap ArgSet.set = {})

\* C8 as stated: equals is true exactly when the two materialized member
\* sets are equal, for every iterable operand, a list included.
C8_EqAnyIterable ==
  res.op = "eq" =>
    ((res.exc = "none" /\ res.flag) <=> (BothMaterialize /\ SelfSet.set = ArgSet.set))

\* C8 amended: equals is true exactly when the operand is a set (a view or a
\* native set) and the two materialized member sets are equal; for any other
\* iterable, such as a list holding the same elements, it is false.
C8_EqSetsOnly ==
  res.op = "eq" =>
    /\ (res.exc = "none" /\ res.flag) <=>
         (res.args[1].k \in {"view", "set"} /\ BothMaterialize /\ SelfSet.set = ArgSet.set)
    /\ res.args[1].k = "list" => (res.exc = "none" /\ ~res.flag)

C8_Witness ==
  /\ res.op = "eq"
  /\ res.args[1].k = "list"
  /\ BothMaterialize /\ SelfSet.set = ArgSet.set /\ SelfSet.set # {}
  /\ res.exc = "none" /\ ~res.flag

\* C10: intersection, union, difference and isdisjoint change nothing but
\* their return value: the store and the caller's native collection hold
\* after the call what they held before it.
C10_ReadOnly ==
  res.op \in {"intersection", "union", "difference", "isdisjoint"} =>
    (sstore = res.store0 /\ nat = res.nat0)
\* -------------------------------------------------- claims on SortedSet
\* what the operands of a call add to element el, read off the call's
\* arguments: 1 per occurrence in a plain iterable, the given value per
\* mapping entry or keyword
Names(self, it, el) ==
  it.t \in {"el", "pair", "kw"} /\ Encode(self.vt, it.v) = StrV(el)
Gain(self, it, el) ==
  IF ~Names(self, it, el) THEN 0
  ELSE IF it.t = "el" THEN 1 ELSE it.amt.n
TotalGain(self, req, el) ==
  SumSeq([i \in 1..Len(req) |-> Gain(self, req[i], el)])
Named(self, req, el) == \E i \in 1..Len(req) : Names(self, req[i], el)
NamedSet(self, req) == {el \in Bytes : Named(self, req, el)}
PlainReq(req) == \A i \in 1..Len(req) : req[i].t \in {"el", "pair", "kw"}
OperandKeys(req) == {req[i].view.key : i \in {j \in 1..Len(req) : req[j].t = "zset"}}
OperandScore(snap, req, el) ==
  SumSeq([i \in 1..Len(req) |->
            IF req[i].t = "zset" THEN snap[req[i].view.key][el].score ELSE 0])

Ascending(zst, key) ==
  LET r == Zrange(zst, key)
  IN /\ {r[i] : i \in 1..Len(r)} = {el \in Bytes : zst[key][el].has}
     /\ \A i \in 1..Len(r), j \in 1..Len(r) :
          i < j => zst[key][r[i]].score <= zst[key][r[j]].score

\* C1: two sessions update the same key concurrently with disjoint element
\* sets; once both have completed, however their steps interleaved and
\* whichever was retried, every score is its initial score plus the
\* increments of both updates.
C1_NoLostUpdate ==
  LET a == tx["s1"]
      b == tx["s2"]
  IN (/\ a.pc = "done" /\ b.pc = "done"
      /\ a.self.key = b.self.key
      /\ PlainReq(a.req) /\ PlainReq(b.req)
      /\ NamedSet(a.self, a.req) \cap NamedSet(b.self, b.req) = {})
     => \A el \in Bytes :
          zstore[a.self.key][el] =
            IF Named(a.self, a.req, el) \/ Named(b.self, b.req, el)
              THEN Scored(zstore0[a.self.key][el].score
                            + TotalGain(a.self, a.req, el)
                            + TotalGain(b.self, b.req, el))
              ELSE zstore0[a.self.key][el]

C1_Witness ==
  /\ tx["s1"].pc = "done" /\ tx["s2"].pc = "done"
  /\ tx["s1"].self.key = tx["s2"].self.key
  /\ PlainReq(tx["s1"].req) /\ PlainReq(tx["s2"].req)
  /\ NamedSet(tx["s1"].self, tx["s1"].req) # {}
  /\ NamedSet(tx["s2"].self, tx["s2"].req) # {}
  /\ NamedSet(tx["s1"].self, tx["s1"].req) \cap NamedSet(tx["s2"].self, tx["s2"].req) = {}
  /\ tx["s1"].trial > 0

\* C5: after a completed update with plain iterables, mappings and keywords
\* every named element has its former score (0 if absent) plus what the
\* operands add to it, every other element is as it was, and the iteration
\* order is ascending by score.
C5_Additive ==
  LET a == tx["s1"]
  IN (a.pc = "done" /\ PlainReq(a.req)) =>
       /\ \A el \in Bytes :
            zstore[a.self.key][el] =
              IF Named(a.self, a.req, el)
                THEN Scored(a.pre[a.self.key][el].score + TotalGain(a.self, a.req, el))
                ELSE a.pre[a.self.key][el]
       /\ \A k \in ZKeys \ {a.self.key} : zstore[k] = a.pre[k]
       /\ Ascending(zstore, a.self.key)

C5_Witness ==
  LET a == tx["s1"]
  IN /\ a.pc = "done" /\ Len(a.req) = 2
     /\ a.req[1].t = "el" /\ a.req[2].t = "pair" /\ a.req[2].amt.kind = "float"
     /\ a.req[1].v = a.req[2].v
     /\ \E el \in Bytes :
          /\ Named(a.self, a.req, el)
          /\ a.pre[a.self.key][el].has
          /\ zstore[a.self.key][el].score = a.pre[a.self.key][el].score + 2
     /\ \E el \in Bytes : ~Named(a.self, a.req, el) /\ zstore[a.self.key][el].has

\* C6: contains never raises, is false for a value the codec cannot encode,
\* and is otherwise true exactly when the element has a score, whatever the
\* score (0 and negative scores included).
C6_ContainsIffScored ==
  cres.op = "contains" =>
    /\ cres.exc = "none"
    /\ cres.flag =
         (/\ Encode(cres.self.vt, cres.v).kind # "err"
          /\ zstore[cres.self.key][Encode(cres.self.vt, cres.v).s].has)

\* C7: when update fails with a type error at any position among its
\* operands, the error reaches the caller, the block is not retried and the
\* stored scores are those from before the call.
C7_ErrorLeavesScores ==
  LET a == tx["s1"]
  IN a.pc = "raised" =>
       /\ a.exc = "TypeError"
       /\ a.trial = 0
       /\ zstore = a.pre

C7_Witness ==
  LET a == tx["s1"]
  IN /\ a.pc = "raised" /\ Len(a.req) = 2
     /\ ItemKind(a.self, a.req[1]) = "incr"
     /\ a.req[2].t = "pair" /\ a.req[2].amt.kind = "str"
     /\ a.exc = "TypeError"

\* C9 as stated: the operand keys are registered, so an update never commits
\* when another session changed an operand's key between the start of the
\* block and the commit.
C9_OperandChangeRejects ==
  \A s \in Sessions :
    (tx[s].pc = "done" /\ OperandKeys(tx[s].req) # {}) =>
      tx[s].touched \cap OperandKeys(tx[s].req) = {}

\* C9 amended: update registers its own key only. It commits only when no
\* other session changed that key since the attempt began, a change of an
\* operand's key does not reject the commit, and the merge is that of the
\* commit's moment: every score is the key's score at the commit plus the
\* increments plus the operands' scores at the commit.
C9_MergeAtCommit ==
  \A s \in Sessions :
    LET a == tx[s]
        key == a.self.key
    IN /\ (a.pc = "commit" /\ OperandKeys(a.req) # {}) => a.watched = {key}
       /\ (a.pc = "done" /\ OperandKeys(a.req) # {}) =>
            /\ key \notin a.touched
            /\ \A el \in Bytes :
                 a.post[key][el] =
                   IF \/ a.atCommit[key][el].has
                      \/ Named(a.self, a.req, el)
                      \/ \E k \in OperandKeys(a.req) : a.atCommit[k][el].has
                     THEN Scored(a.atCommit[key][el].score
                                   + TotalGain(a.self, a.req, el)
                                   + OperandScore(a.atCommit, a.req, el))
                     ELSE Absent

C9_Witness ==
  \E s \in Sessions :
    LET a == tx[s]
    IN /\ a.pc = "done" /\ OperandKeys(a.req) # {}
       /\ a.touched \cap OperandKeys(a.req) # {}
       /\ \E k \in OperandKeys(a.req) : a.atCommit[k] # a.pre[k]
       /\ \E el \in Bytes : a.post[a.self.key][el].score > a.atCommit[a.self.key][el].score
====
